---------------------------- MODULE Spec2Model ----------------------------
(***************************************************************************)
(* Model of src/kcmdline.c: the merge of the builtin kernel command line   *)
(* with the runtime command line (get_cmdline_with_print -> get_cmdline    *)
(* -> check_cmdline -> is_allowed).                                        *)
(*                                                                         *)
(* Bytes are naturals 0..255.  A line is a sequence of bytes; its C        *)
(* buffer holds the bytes followed by a terminating NUL (kcmdline.c        *)
(* 113-114).  The builtin line is compiled into the image and is printable *)
(* text; the runtime line comes from the loader and may hold any byte.     *)
(***************************************************************************)
EXTENDS Integers, Sequences, FiniteSets, TLC

(* ------------------------------ bytes -------------------------------- *)
NUL == 0
SPACE == 32
PRINT_LO == 32
PRINT_HI == 126
CARET == 94

MAX_TOKENS == 128
errbuf_buflen == 255
SIZEOF_CHAR16 == 2

marker == <<83, 84, 85, 66, 66, 89, 95, 82, 84, 95, 67, 76, 73, 49>>
namespace == <<83, 84, 85, 66, 66, 89, 95, 82, 84>>

allowed ==
    << <<94, 99, 111, 110, 115, 111, 108, 101, 61>>,
       <<94, 114, 111, 111, 116, 61, 115, 111, 99, 105, 58>>,
       <<114, 111, 111, 116, 61, 97, 116, 111, 109, 105, 120>>,
       <<114, 111>>,
       <<113, 117, 105, 101, 116>>,
       <<118, 101, 114, 98, 111, 115, 101>>,
       <<99, 114, 97, 115, 104, 107, 101, 114, 110, 101, 108, 61, 50, 53, 54, 77>> >>

(* ------------------------- input alphabet ---------------------------- *)
MaxBuiltinPieces == 3
MaxRuntimePieces == 2

\* "root=atomix ", " ro", the marker, the namespace string
BuiltinPieces ==
    { <<114, 111, 111, 116, 61, 97, 116, 111, 109, 105, 120, 32>>,
      <<32, 114, 111>>,
      marker,
      namespace }

\* "console=", " ro", the namespace string, and the single byte NUL
RuntimePieces ==
    { <<99, 111, 110, 115, 111, 108, 101, 61>>,
      <<32, 114, 111>>,
      namespace,
      <<NUL>> }

RECURSIVE Lines(_, _)
Lines(pieces, n) ==
    IF n = 0 THEN { <<>> }
    ELSE LET shorter == Lines(pieces, n - 1)
         IN  shorter \cup { l \o p : l \in shorter, p \in pieces }

RECURSIVE Repeat(_, _)
Repeat(s, n) == IF n = 0 THEN <<>> ELSE s \o Repeat(s, n - 1)

\* "ro ro ... " with 42, 43 and 129 tokens: 126, 129 and 387 bytes
LongCounts == {42, 43, 129}
LongLines == { Repeat(<<114, 111, 32>>, n) : n \in LongCounts }

\* lines with the bytes around the printable range: DEL (0x7f), "ro" with
\* 0x80 behind it, "~ro" and 0x1f
EdgeLines == { <<127>>, <<114, 111, 128>>, <<126, 114, 111>>, <<31>> }

BuiltinLines == Lines(BuiltinPieces, MaxBuiltinPieces)
RuntimeLines == Lines(RuntimePieces, MaxRuntimePieces) \cup LongLines \cup EdgeLines

(* ------------------------- C string helpers -------------------------- *)
Max(a, b) == IF a >= b THEN a ELSE b

\* strlena: the number of bytes of the buffer mem in front of its first NUL
\* (the buffer's own terminator follows its last byte)
strlena(mem) ==
    LET nuls == { i \in 1..Len(mem) : mem[i] = NUL }
    IN  IF nuls = {} THEN Len(mem)
        ELSE (CHOOSE i \in nuls : \A j \in nuls : i <= j) - 1

\* the C string held by mem
CStr(mem) == SubSeq(mem, 1, strlena(mem))

\* needle lies at position k of s, inside its first n bytes
MatchAt(s, n, needle, k) ==
    /\ k + Len(needle) - 1 <= n
    /\ \A j \in 1..Len(needle) : s[k + j - 1] = needle[j]

FirstHit(mem, n, needle, from) ==
    LET hits == { k \in from..n : MatchAt(mem, n, needle, k) }
    IN  IF hits = {} THEN 0
        ELSE CHOOSE k \in hits : \A h \in hits : k <= h

\* 1-based position of the first occurrence of needle in the C string held
\* by mem at or after position from, 0 when there is none (NULL)
strstraFrom(mem, needle, from) == FirstHit(mem, strlena(mem), needle, from)

strstra(mem, needle) == strstraFrom(mem, needle, 1)

\* strncmpa(a, b, n) = 0 on the C strings a and b: the first n bytes agree,
\* or they agree up to and including a common terminator
strncmpaEq(a, b, n) ==
    LET sa == CStr(a)
        sb == CStr(b)
        at(s, i) == IF i <= Len(s) THEN s[i] ELSE NUL
    IN  \A i \in 1..n :
            \/ at(sa, i) = at(sb, i)
            \/ \E j \in 1..(i - 1) : at(sa, j) = NUL

(* ------------------------------ status ------------------------------- *)
EFI_SUCCESS == "EFI_SUCCESS"
EFI_OUT_OF_RESOURCES == "EFI_OUT_OF_RESOURCES"
EFI_INVALID_PARAMETER == "EFI_INVALID_PARAMETER"
EFI_SECURITY_VIOLATION == "EFI_SECURITY_VIOLATION"

EFI_ERROR(st) == st # EFI_SUCCESS

(* ---------------------------- diagnostics ---------------------------- *)
\* the text UnicodeSPrint leaves in errbuf: format and %a argument
Msg(text, arg) == [text |-> text, arg |-> arg]
EmptyMsg == Msg("", <<>>)
\* errbuf as AllocatePool returns it, before line 155 stores the terminator
UninitMsg == Msg("<uninitialised>", <<>>)
\* an uninitialised errbuf whose first CHAR16 happens to be non-zero
GarbageMsg == Msg("<garbage>", <<>>)

MsgNoMarker == Msg("runtime arguments cannot be given to non-empty builtin without marker", <<>>)
MsgTwice == Msg("%a appears more than once in builtin cmdline", marker)
MsgNotToken == Msg("%a is not a full token", marker)
MsgNsBuiltin == Msg("%a appears in builtin cmdline", namespace)
MsgNsRuntime == Msg("%a appears in runtime cmdline", namespace)
MsgBadChar(c, i) == Msg("Bad character 0x%02hhx in position %d: %a.", <<c, i>>)
MsgTooMany == Msg("Too many tokens in cmdline.", <<>>)
MsgNotAllowed(tok) == Msg("token not allowed: %a", tok)

(* ----------------------------- is_allowed ---------------------------- *)
num_allowed == Len(allowed)

\* one round of the loop of is_allowed: TRUE when the entry makes it return
\* TRUE, FALSE when the loop goes on
EntryMatchesAnyLength(token, input) ==
    LET len == strlena(token)
    IN  IF token[1] = CARET
        THEN strncmpaEq(Tail(token), input, len - 1)
        ELSE strncmpaEq(token, input, len)

EntryMatches(token, input) ==
    LET len       == strlena(token)
        input_len == strlena(input)
    IN  IF token[1] = CARET
        THEN strncmpaEq(Tail(token), input, len - 1)
        ELSE IF input_len # len
             THEN FALSE
             ELSE strncmpaEq(token, input, len)

RECURSIVE is_allowed_from(_, _)
is_allowed_from(input, i) ==
    IF i > num_allowed THEN FALSE
    ELSE IF EntryMatches(allowed[i], input) THEN TRUE
    ELSE is_allowed_from(input, i + 1)

is_allowed(input) == is_allowed_from(input, 1)

(* ---------------------------- check_cmdline -------------------------- *)
\* The walk over buf (lines 63-95).  i and start are the C indexes (from 0);
\* byte i of buf is buf[i + 1].  A token is the C string at &buf[start]: the
\* bytes from start up to the NUL stored over the next space, or up to the
\* terminator at buf[cmdline_len].
IsBadChar(c) == c < PRINT_LO \/ c > PRINT_HI

\* line 72
OverLimit(i) == i >= MAX_TOKENS

\* the locals at the head of the loop; a status other than EFI_SUCCESS
\* means that goto out was taken
WalkStart ==
    [status |-> EFI_SUCCESS, errmsg |-> EmptyMsg, start |-> -1, tokens |-> <<>>]

\* one round of the loop, lines 65-90
WalkStep(buf, w, i) ==
    LET c == buf[i + 1]
    IN  IF w.status # EFI_SUCCESS THEN w
        ELSE IF IsBadChar(c)
        THEN [w EXCEPT !.status = EFI_SECURITY_VIOLATION,
                       !.errmsg = MsgBadChar(c, i)]
        ELSE IF OverLimit(i)
        THEN [w EXCEPT !.status = EFI_SECURITY_VIOLATION,
                       !.errmsg = MsgTooMany]
        ELSE IF c = SPACE
        THEN IF w.start >= 0
             THEN [w EXCEPT !.tokens = Append(@, SubSeq(buf, w.start + 1, i)),
                            !.start = -1]
             ELSE w
        ELSE IF w.start < 0 THEN [w EXCEPT !.start = i] ELSE w

\* the rounds lo..hi of the loop, in order; the rounds after a goto out
\* are not run
RECURSIVE WalkRange(_, _, _, _)
WalkRange(buf, w, lo, hi) ==
    IF lo > hi THEN w
    ELSE IF lo = hi THEN WalkStep(buf, w, lo)
    ELSE LET mid  == (lo + hi) \div 2
             left == WalkRange(buf, w, lo, mid)
         IN  IF left.status # EFI_SUCCESS THEN left
             ELSE WalkRange(buf, left, mid + 1, hi)

\* lines 63-95: the loop and the last token
Walk(buf) ==
    LET w == WalkRange(buf, WalkStart, 0, Len(buf) - 1)
    IN  IF w.status = EFI_SUCCESS /\ w.start >= 0
        THEN [w EXCEPT !.tokens = Append(@, SubSeq(buf, w.start + 1, Len(buf)))]
        ELSE w

\* the scan of the tokens (lines 97-102): every disallowed token overwrites
\* the message and the status, so the last one in scan order is left
Scan(tokens, w) ==
    LET bad == { i \in 1..Len(tokens) : ~is_allowed(tokens[i]) }
    IN  IF bad = {} THEN w
        ELSE LET last == CHOOSE i \in bad : \A j \in bad : j <= i
             IN  [w EXCEPT !.status = EFI_SECURITY_VIOLATION,
                           !.errmsg = MsgNotAllowed(tokens[last])]

\* check_cmdline once buf is allocated (lines 63-102): status, message and
\* tokens
CheckWalk(line) ==
    LET w == Walk(line)
        r == IF w.status # EFI_SUCCESS THEN w
             ELSE Scan(w.tokens, w)
    IN  [status |-> r.status, errmsg |-> r.errmsg, tokens |-> r.tokens]

(* ------------------------------- state ------------------------------- *)
VARIABLES
    secure,       \* BOOLEAN secure
    builtin,      \* the builtin line, builtin_len = Len(builtin)
    runtime,      \* the runtime line, runtime_len = Len(runtime)
    pc,           \* position in get_cmdline_with_print / get_cmdline / check_cmdline
    status,       \* get_cmdline's status, then get_cmdline_with_print's err
    ptr,          \* which of the local pointers are non-NULL
    live,         \* the pool allocations that are allocated and not freed
    faults,       \* double frees and accesses to a buffer that is not live
    cap,          \* allocated size of each buffer, in bytes
    maxw,         \* highest byte index written into each buffer, -1 for none
    part1,        \* the C string in part1
    part2,        \* the C string in part2
    part1_len,
    part2_len,
    errbuf,       \* the text in errbuf
    cc,           \* check_cmdline's status, message and tokens
    cmdline,      \* the out parameters *cmdline and *cmdline_len
    errmsg,       \* the out parameter *errmsg of get_cmdline
    printed,      \* what get_cmdline_with_print has printed
    failed        \* the allocations that returned NULL

vars == <<secure, builtin, runtime, pc, status, ptr, live, faults, cap, maxw,
          part1, part2, part1_len, part2_len, errbuf, cc, cmdline, errmsg,
          printed, failed>>

inputs == <<secure, builtin, runtime>>

Buffers == {"errbuf", "part1", "part2", "buf", "cbuf"}

builtin_len == Len(builtin)
runtime_len == Len(runtime)
marker_len == strlena(marker)

NullCmdline == [ptr |-> FALSE, bytes |-> <<>>, len |-> 0]
NullErrmsg == [ptr |-> FALSE, msg |-> EmptyMsg]
NoCheck == [status |-> EFI_SUCCESS, errmsg |-> EmptyMsg, tokens |-> <<>>]

Init ==
    /\ secure \in BOOLEAN
    /\ builtin \in BuiltinLines
    /\ runtime \in RuntimeLines
    /\ pc = "get_cmdline"
    /\ status = EFI_SUCCESS
    /\ ptr = [b \in Buffers |-> FALSE]
    /\ live = {}
    /\ faults = {}
    /\ cap = [b \in Buffers |-> 0]
    /\ maxw = [b \in Buffers |-> -1]
    /\ part1 = <<>>
    /\ part2 = <<>>
    /\ part1_len = 0
    /\ part2_len = 0
    /\ errbuf = UninitMsg
    /\ cc = NoCheck
    /\ cmdline = NullCmdline
    /\ errmsg = NullErrmsg
    /\ printed = <<>>
    /\ failed = {}

(* --------------------------- pool and writes ------------------------- *)
\* AllocatePool(size) returned a buffer for b
Allocated(b, size) ==
    /\ ptr' = [ptr EXCEPT ![b] = TRUE]
    /\ live' = live \cup {b}
    /\ cap' = [cap EXCEPT ![b] = size]
    /\ UNCHANGED failed

\* AllocatePool returned NULL for b
AllocFailed(b) ==
    /\ failed' = failed \cup {b}
    /\ UNCHANGED <<ptr, live, cap>>

\* the fault of FreePool(b)
FreeFault(b) == IF b \in live THEN {} ELSE {<<"double free", b>>}

\* the faults of reading or writing the buffers bs
UseFault(bs) == { <<"use after free", b>> : b \in bs \ live }

\* maxw after a write of the bytes 0..top of b
Wrote(w, b, top) == [w EXCEPT ![b] = Max(@, top)]

(* ----------------------------- get_cmdline --------------------------- *)
\* lines 122-139
AllocErrbuf ==
    /\ pc = "get_cmdline"
    /\ cmdline' = NullCmdline
    /\ \/ /\ Allocated("errbuf", errbuf_buflen * SIZEOF_CHAR16)
          /\ status' = EFI_SECURITY_VIOLATION
          /\ pc' = "alloc_part1"
       \/ /\ AllocFailed("errbuf")
          /\ status' = EFI_OUT_OF_RESOURCES
          /\ pc' = "out"
    /\ UNCHANGED <<inputs, faults, maxw, part1, part2, part1_len, part2_len,
                   errbuf, cc, errmsg, printed>>

\* lines 141-145
AllocPart1 ==
    /\ pc = "alloc_part1"
    /\ \/ /\ Allocated("part1", builtin_len + 1)
          /\ pc' = "alloc_part2"
          /\ UNCHANGED status
       \/ /\ AllocFailed("part1")
          /\ status' = EFI_OUT_OF_RESOURCES
          /\ pc' = "out"
    /\ UNCHANGED <<inputs, faults, maxw, part1, part2, part1_len, part2_len,
                   errbuf, cc, cmdline, errmsg, printed>>

\* lines 147-157
AllocPart2 ==
    /\ pc = "alloc_part2"
    /\ \/ /\ Allocated("part2", builtin_len + 1)
          /\ part1' = <<>>
          /\ part2' = <<>>
          /\ errbuf' = EmptyMsg
          /\ part1_len' = 0
          /\ part2_len' = 0
          /\ maxw' = Wrote(Wrote(Wrote(maxw, "part1", 0), "part2", 0),
                           "errbuf", SIZEOF_CHAR16 - 1)
          /\ pc' = "splice"
          /\ UNCHANGED status
       \/ /\ AllocFailed("part2")
          /\ status' = EFI_OUT_OF_RESOURCES
          /\ pc' = "out"
          /\ UNCHANGED <<part1, part2, errbuf, part1_len, part2_len, maxw>>
    /\ UNCHANGED <<inputs, faults, cc, cmdline, errmsg, printed>>

\* p = strstra(builtin, marker), as a 1-based position, 0 for NULL
MarkerPos == strstra(builtin, marker)

\* line 179: the marker occurs again behind its first occurrence
MarkerAgain == strstraFrom(builtin, marker, MarkerPos + marker_len) # 0

\* lines 186-189 with p = MarkerPos
SplitLen1 == MarkerPos - 1
SplitLen2 == builtin_len - marker_len - SplitLen1

IsFullTokenBeforeOnly ==
    IF MarkerPos = 1 THEN TRUE ELSE builtin[MarkerPos - 1] = SPACE

IsFullToken ==
    /\ IF MarkerPos = 1 THEN TRUE ELSE builtin[MarkerPos - 1] = SPACE
    /\ IF SplitLen2 = 0 THEN TRUE ELSE builtin[MarkerPos + marker_len] = SPACE

\* line 159: builtin_len == 0
SpliceEmpty ==
    /\ pc = "splice"
    /\ builtin_len = 0
    /\ pc' = "namespace"
    /\ UNCHANGED <<inputs, status, ptr, live, faults, cap, maxw, part1, part2,
                   part1_len, part2_len, errbuf, cc, cmdline, errmsg, printed,
                   failed>>

\* lines 161-169: no marker, secure
SpliceNoMarkerSecure ==
    /\ pc = "splice"
    /\ builtin_len # 0
    /\ MarkerPos = 0
    /\ secure
    /\ IF runtime_len # 0
       THEN /\ status' = EFI_INVALID_PARAMETER
            /\ errbuf' = MsgNoMarker
            /\ pc' = "out"
       ELSE /\ pc' = "namespace"
            /\ UNCHANGED <<status, errbuf>>
    /\ UNCHANGED <<inputs, ptr, live, faults, cap, maxw, part1, part2,
                   part1_len, part2_len, cc, cmdline, errmsg, printed, failed>>

\* line 173: part1_len when the builtin line has no marker
NoMarkerLen1Unpadded == builtin_len

NoMarkerLen1 == builtin_len + 1

\* lines 170-176: no marker, insecure.  CopyMem stores builtin_len bytes,
\* then a space goes to index part1_len - 1 and a NUL to index part1_len.
\* maxw records each index as written; part1 keeps the bytes in front of
\* that NUL, which is what strstra(part1, ...) and CopyMem read back.
SpliceNoMarkerInsecure ==
    /\ pc = "splice"
    /\ builtin_len # 0
    /\ MarkerPos = 0
    /\ ~secure
    /\ part1_len' = NoMarkerLen1
    /\ part1' = [i \in 1..part1_len' |->
                    IF i = part1_len' THEN SPACE ELSE builtin[i]]
    /\ maxw' = Wrote(Wrote(Wrote(maxw, "part1", builtin_len - 1),
                           "part1", part1_len' - 1),
                     "part1", part1_len')
    /\ pc' = "namespace"
    /\ UNCHANGED <<inputs, status, ptr, live, faults, cap, part2, part2_len,
                   errbuf, cc, cmdline, errmsg, printed, failed>>

\* lines 178-184
SpliceMarkerTwice ==
    /\ pc = "splice"
    /\ builtin_len # 0
    /\ MarkerPos # 0
    /\ MarkerAgain
    /\ status' = EFI_INVALID_PARAMETER
    /\ errbuf' = MsgTwice
    /\ pc' = "out"
    /\ UNCHANGED <<inputs, ptr, live, faults, cap, maxw, part1, part2,
                   part1_len, part2_len, cc, cmdline, errmsg, printed, failed>>

\* lines 186-193
SpliceNotFullToken ==
    /\ pc = "splice"
    /\ builtin_len # 0
    /\ MarkerPos # 0
    /\ ~MarkerAgain
    /\ ~IsFullToken
    /\ part1_len' = SplitLen1
    /\ part2_len' = SplitLen2
    /\ status' = EFI_INVALID_PARAMETER
    /\ errbuf' = MsgNotToken
    /\ pc' = "out"
    /\ UNCHANGED <<inputs, ptr, live, faults, cap, maxw, part1, part2,
                   cc, cmdline, errmsg, printed, failed>>

\* lines 186-198
SpliceSplit ==
    /\ pc = "splice"
    /\ builtin_len # 0
    /\ MarkerPos # 0
    /\ ~MarkerAgain
    /\ IsFullToken
    /\ part1_len' = SplitLen1
    /\ part2_len' = SplitLen2
    /\ part1' = SubSeq(builtin, 1, part1_len')
    /\ part2' = SubSeq(builtin, MarkerPos + marker_len,
                       MarkerPos + marker_len + part2_len' - 1)
    /\ maxw' = Wrote(Wrote(maxw, "part1", part1_len'), "part2", part2_len')
    /\ pc' = "namespace"
    /\ UNCHANGED <<inputs, status, ptr, live, faults, cap, errbuf, cc, cmdline,
                   errmsg, printed, failed>>

\* lines 203 and 210
NamespaceInBuiltin == strstra(part1, namespace) # 0 \/ strstra(part2, namespace) # 0
NamespaceInRuntime == strstra(runtime, namespace) # 0

\* lines 202-207
NamespaceBuiltin ==
    /\ pc = "namespace"
    /\ NamespaceInBuiltin
    /\ status' = EFI_INVALID_PARAMETER
    /\ errbuf' = MsgNsBuiltin
    /\ faults' = faults \cup UseFault({"part1", "part2"})
    /\ pc' = "out"
    /\ UNCHANGED <<inputs, ptr, live, cap, maxw, part1, part2, part1_len,
                   part2_len, cc, cmdline, errmsg, printed, failed>>

\* lines 209-214
NamespaceRuntime ==
    /\ pc = "namespace"
    /\ ~NamespaceInBuiltin
    /\ NamespaceInRuntime
    /\ status' = EFI_INVALID_PARAMETER
    /\ errbuf' = MsgNsRuntime
    /\ faults' = faults \cup UseFault({"part1", "part2"})
    /\ pc' = "out"
    /\ UNCHANGED <<inputs, ptr, live, cap, maxw, part1, part2, part1_len,
                   part2_len, cc, cmdline, errmsg, printed, failed>>

\* lines 203 and 210, both conditions false: on to line 217
NamespaceClear ==
    /\ pc = "namespace"
    /\ ~NamespaceInBuiltin
    /\ ~NamespaceInRuntime
    /\ faults' = faults \cup UseFault({"part1", "part2"})
    /\ pc' = "check_cmdline"
    /\ UNCHANGED <<inputs, status, ptr, live, cap, maxw, part1, part2,
                   part1_len, part2_len, errbuf, cc, cmdline, errmsg, printed,
                   failed>>

(* --------------------- check_cmdline, called at line 217 ------------- *)
\* lines 45-61
CheckCmdlineAlloc ==
    /\ pc = "check_cmdline"
    /\ \/ /\ Allocated("buf", runtime_len + 1)
          /\ errbuf' = EmptyMsg
          /\ maxw' = Wrote(Wrote(maxw, "errbuf", SIZEOF_CHAR16 - 1),
                           "buf", runtime_len)
          /\ faults' = faults \cup UseFault({"errbuf"})
          /\ cc' = NoCheck
          /\ pc' = "cc_walk"
       \/ /\ AllocFailed("buf")
          /\ cc' = [NoCheck EXCEPT !.status = EFI_OUT_OF_RESOURCES]
          /\ pc' = "cc_out"
          /\ UNCHANGED <<errbuf, maxw, faults>>
    /\ UNCHANGED <<inputs, status, part1, part2, part1_len, part2_len,
                   cmdline, errmsg, printed>>

\* lines 63-102
CheckCmdlineWalk ==
    /\ pc = "cc_walk"
    /\ cc' = CheckWalk(SubSeq(runtime, 1, runtime_len))
    /\ errbuf' = IF cc'.errmsg # EmptyMsg THEN cc'.errmsg ELSE errbuf
    /\ faults' = faults \cup UseFault({"buf", "errbuf"})
    /\ pc' = "cc_out"
    /\ UNCHANGED <<inputs, status, ptr, live, cap, maxw, part1, part2,
                   part1_len, part2_len, cmdline, errmsg, printed, failed>>

\* lines 220-224: the status of check_cmdline ends get_cmdline
FatalInAnyMode(st, sec) == EFI_ERROR(st)

IsFatal(st, sec) == EFI_ERROR(st) /\ (st # EFI_SECURITY_VIOLATION \/ sec)

\* lines 104-109, and lines 217-224 of the caller
CheckCmdlineOut ==
    /\ pc = "cc_out"
    /\ IF ptr["buf"]
       THEN /\ live' = live \ {"buf"}
            /\ faults' = faults \cup FreeFault("buf")
       ELSE UNCHANGED <<live, faults>>
    /\ ptr' = [ptr EXCEPT !["buf"] = FALSE]
    /\ status' = cc.status
    /\ pc' = IF IsFatal(status', secure) THEN "out" ELSE "concat"
    /\ UNCHANGED <<inputs, cap, maxw, part1, part2, part1_len, part2_len,
                   errbuf, cc, cmdline, errmsg, printed, failed>>

(* ------------------------ get_cmdline, continued --------------------- *)
\* line 227
clen == part1_len + runtime_len + part2_len

ConcatenationRuntimeLast ==
    SubSeq(part1, 1, part1_len) \o SubSeq(part2, 1, part2_len)
        \o SubSeq(runtime, 1, runtime_len)

\* lines 234-236: the bytes copied into cbuf
Concatenation ==
    SubSeq(part1, 1, part1_len) \o SubSeq(runtime, 1, runtime_len)
        \o SubSeq(part2, 1, part2_len)

\* lines 226-239
Concat ==
    /\ pc = "concat"
    /\ \/ /\ Allocated("cbuf", clen + 1)
          /\ cmdline' = [ptr |-> TRUE, bytes |-> Concatenation, len |-> clen]
          /\ maxw' = Wrote(maxw, "cbuf", clen)
          /\ faults' = faults \cup UseFault({"part1", "part2"})
          /\ UNCHANGED status
       \/ /\ AllocFailed("cbuf")
          /\ status' = EFI_OUT_OF_RESOURCES
          /\ UNCHANGED <<cmdline, maxw, faults>>
    /\ pc' = "out"
    /\ UNCHANGED <<inputs, part1, part2, part1_len, part2_len, errbuf, cc,
                   errmsg, printed>>

\* line 242: errbuf[0] == '\0'; the first CHAR16 of a buffer that was never
\* written is whatever the pool held
FirstCharIsZero ==
    IF errbuf = UninitMsg THEN BOOLEAN ELSE {errbuf = EmptyMsg}

\* lines 242-251: the buffers FreePool is called on, zero telling whether
\* errbuf[0] is '\0'
OutReleasesKeepingPart2(zero) ==
    (IF ptr["errbuf"] /\ zero THEN {"errbuf"} ELSE {})
        \cup (IF ptr["part1"] THEN {"part1"} ELSE {})

OutReleases(zero) ==
    (IF ptr["errbuf"] /\ zero THEN {"errbuf"} ELSE {})
        \cup (IF ptr["part1"] THEN {"part1"} ELSE {})
        \cup (IF ptr["part2"] THEN {"part2"} ELSE {})

\* lines 241-254
Out ==
    /\ pc = "out"
    /\ \E zero \in FirstCharIsZero :
        LET release == ptr["errbuf"] /\ zero
            gone    == OutReleases(zero)
        IN  /\ live' = live \ gone
            /\ faults' = faults
                  \cup UNION { FreeFault(b) : b \in gone }
                  \cup (IF ptr["errbuf"] THEN UseFault({"errbuf"}) ELSE {})
            /\ ptr' = [ptr EXCEPT !["errbuf"] = @ /\ ~release]
            /\ errbuf' = IF errbuf = UninitMsg /\ ptr["errbuf"] /\ ~zero
                         THEN GarbageMsg ELSE errbuf
            /\ errmsg' = [ptr |-> ptr'["errbuf"],
                          msg |-> IF ptr'["errbuf"] THEN errbuf' ELSE EmptyMsg]
    /\ pc' = "returned"
    /\ UNCHANGED <<inputs, status, cap, maxw, part1, part2, part1_len,
                   part2_len, cc, cmdline, printed, failed>>

(* ------------------------ get_cmdline_with_print --------------------- *)
\* lines 282-284: get_cmdline returned success
WithPrintSuccess ==
    /\ pc = "returned"
    /\ ~EFI_ERROR(status)
    /\ pc' = "wp_out"
    /\ UNCHANGED <<inputs, status, ptr, live, faults, cap, maxw, part1, part2,
                   part1_len, part2_len, errbuf, cc, cmdline, errmsg, printed,
                   failed>>

\* lines 286-299
WithPrintReport ==
    /\ pc = "returned"
    /\ EFI_ERROR(status)
    /\ LET line == IF ~errmsg.ptr
                   THEN [fmt |-> "%r", err |-> status, msg |-> EmptyMsg]
                   ELSE [fmt |-> "%r: %ls", err |-> status, msg |-> errmsg.msg]
           note == [fmt |-> IF secure
                            THEN "Custom kernel command line rejected"
                            ELSE "Custom kernel would be rejected in secure mode",
                    err |-> status, msg |-> EmptyMsg]
       IN  printed' = IF status = EFI_SECURITY_VIOLATION
                      THEN printed \o <<line, note>>
                      ELSE printed \o <<line>>
    /\ status' = IF status = EFI_SECURITY_VIOLATION /\ ~secure
                 THEN EFI_SUCCESS ELSE status
    /\ faults' = faults \cup (IF errmsg.ptr THEN UseFault({"errbuf"}) ELSE {})
    /\ pc' = "wp_out"
    /\ UNCHANGED <<inputs, ptr, live, cap, maxw, part1, part2, part1_len,
                   part2_len, errbuf, cc, cmdline, errmsg, failed>>

\* lines 301-306
WithPrintOut ==
    /\ pc = "wp_out"
    /\ IF errmsg.ptr
       THEN /\ live' = live \ {"errbuf"}
            /\ faults' = faults \cup FreeFault("errbuf")
       ELSE UNCHANGED <<live, faults>>
    /\ pc' = "done"
    /\ UNCHANGED <<inputs, status, ptr, cap, maxw, part1, part2, part1_len,
                   part2_len, errbuf, cc, cmdline, errmsg, printed, failed>>

Next ==
    \/ AllocErrbuf
    \/ AllocPart1
    \/ AllocPart2
    \/ SpliceEmpty
    \/ SpliceNoMarkerSecure
    \/ SpliceNoMarkerInsecure
    \/ SpliceMarkerTwice
    \/ SpliceNotFullToken
    \/ SpliceSplit
    \/ NamespaceBuiltin
    \/ NamespaceRuntime
    \/ NamespaceClear
    \/ CheckCmdlineAlloc
    \/ CheckCmdlineWalk
    \/ CheckCmdlineOut
    \/ Concat
    \/ Out
    \/ WithPrintSuccess
    \/ WithPrintReport
    \/ WithPrintOut

Spec == Init /\ [][Next]_vars

(* --------------------- properties of the merge ----------------------- *)
(* The definitions below speak about lines as byte sequences with an       *)
(* explicit length; they use none of the C string helpers of the model.    *)

\* sub occurs in the Len(s) bytes of s
Occurrences(s, sub) ==
    { k \in 1..(Len(s) - Len(sub) + 1) : SubSeq(s, k, k + Len(sub) - 1) = sub }

Contains(s, sub) == Occurrences(s, sub) # {}

Printable(line) == \A i \in 1..Len(line) : line[i] >= 32 /\ line[i] <= 126

\* the maximal runs of non-space bytes of a line
RunStarts(line) ==
    { a \in 1..Len(line) : line[a] # 32 /\ (a = 1 \/ line[a - 1] = 32) }

RunEnd(line, a) ==
    CHOOSE b \in a..Len(line) :
        /\ \A j \in a..b : line[j] # 32
        /\ b = Len(line) \/ line[b + 1] = 32

Runs(line) == { SubSeq(line, a, RunEnd(line, a)) : a \in RunStarts(line) }

TokenCount(line) == Cardinality(RunStarts(line))

\* the allowlist as the spec describes it: exact entries and prefix patterns
ExactEntries == { allowed[i] : i \in { j \in 1..Len(allowed) : allowed[j][1] # 94 } }
PrefixPatterns == { Tail(allowed[i]) : i \in { j \in 1..Len(allowed) : allowed[j][1] = 94 } }

Permitted(tok) ==
    \/ tok \in ExactEntries
    \/ \E pat \in PrefixPatterns :
          Len(tok) >= Len(pat) /\ SubSeq(tok, 1, Len(pat)) = pat

\* a line with a bad byte or a token the allowlist does not permit
Dirty(line) == ~Printable(line) \/ \E tok \in Runs(line) : ~Permitted(tok)

\* the marker in the builtin line
MarkerAt == Occurrences(builtin, marker)
HasMarker == MarkerAt # {}
FirstMarker == CHOOSE k \in MarkerAt : \A h \in MarkerAt : k <= h
BeforeMarker == SubSeq(builtin, 1, FirstMarker - 1)
AfterMarker == SubSeq(builtin, FirstMarker + 14, Len(builtin))
StandaloneAt(k) ==
    /\ k = 1 \/ builtin[k - 1] = 32
    /\ k + 14 > Len(builtin) \/ builtin[k + 14] = 32
OneStandaloneMarker ==
    /\ Cardinality(MarkerAt) = 1
    /\ \A k \in MarkerAt : StandaloneAt(k)

\* get_cmdline has returned; get_cmdline_with_print has returned
Returned == pc = "returned"
Done == pc = "done"
NoCmdline == ~cmdline.ptr /\ cmdline.len = 0 /\ cmdline.bytes = <<>>
NoAllocFailed == failed = {}

(* -------------------------------- C1 --------------------------------- *)
\* C1: in Secure mode, when get_cmdline or get_cmdline_with_print returns
\* success, every byte of the runtime line is printable and every maximal
\* run of non-space bytes is permitted by the allowlist; and for a runtime
\* line with a bad byte or a disallowed token the Secure-mode merge returns
\* an error and leaves the command line null with length 0.
C1_SecureSuccessIsClean ==
    (secure /\ (Returned \/ Done)) =>
        /\ ~EFI_ERROR(status) =>
              /\ Printable(runtime)
              /\ \A tok \in Runs(runtime) : Permitted(tok)
        /\ Dirty(runtime) => (EFI_ERROR(status) /\ NoCmdline)

\* a Secure-mode merge that returned a command line for a runtime line of
\* two tokens, one matched by a prefix pattern and one by an exact entry
C1_Witness ==
    /\ secure
    /\ Returned
    /\ status = EFI_SUCCESS
    /\ cmdline.ptr
    /\ HasMarker
    /\ TokenCount(runtime) = 2
    /\ \E tok \in Runs(runtime) : tok \in ExactEntries
    /\ \E tok \in Runs(runtime) : tok \notin ExactEntries

(* -------------------------------- C2 --------------------------------- *)
\* the prefix and the suffix the splice step yields for the builtin line
SpecPrefix ==
    IF builtin = <<>> THEN <<>>
    ELSE IF HasMarker THEN BeforeMarker
    ELSE builtin \o <<32>>
SpecSuffix == IF HasMarker THEN AfterMarker ELSE <<>>

\* the validator ran on the runtime line and found a policy violation
ViolationFound == "buf" \notin failed /\ cc.status = EFI_SECURITY_VIOLATION

\* C2: when the runtime line passed the splice and namespace checks and
\* failed token validation (no allocation failing), get_cmdline_with_print
\* returns the security violation and no command line in Secure mode; in
\* Insecure mode it returns success, has printed the diagnostic, and the
\* command line is prefix ++ runtime ++ suffix with the runtime bytes
\* unchanged.
C2_ViolationByMode ==
    (Done /\ ViolationFound /\ NoAllocFailed) =>
        /\ Len(printed) = 2
        /\ printed[1].msg = cc.errmsg
        /\ printed[1].msg # EmptyMsg
        /\ IF secure
           THEN status = EFI_SECURITY_VIOLATION /\ NoCmdline
           ELSE /\ status = EFI_SUCCESS
                /\ cmdline.ptr
                /\ cmdline.bytes = SpecPrefix \o runtime \o SpecSuffix
                /\ cmdline.len = Len(cmdline.bytes)

\* an Insecure-mode merge that was downgraded: a disallowed token between
\* a non-empty prefix and a non-empty suffix
C2_Witness ==
    /\ ~secure
    /\ Done
    /\ ViolationFound
    /\ NoAllocFailed
    /\ status = EFI_SUCCESS
    /\ cc.errmsg.text = "token not allowed: %a"
    /\ SpecPrefix # <<>>
    /\ SpecSuffix # <<>>

(* -------------------------------- C3 --------------------------------- *)
\* the builtin line passes the splice step
SplicePasses ==
    \/ builtin = <<>>
    \/ ~HasMarker /\ (~secure \/ runtime = <<>>)
    \/ OneStandaloneMarker

\* C3: in both modes, for a builtin line that passes the splice step and a
\* runtime line whose runtime_len bytes contain "STUBBY_RT" anywhere,
\* get_cmdline (no allocation failing) fails with InvalidParameter and
\* produces no command line; get_cmdline_with_print does not turn this into
\* a success.
C3_NamespaceAlwaysRejected ==
    ((Returned \/ Done) /\ NoAllocFailed /\ SplicePasses
        /\ Contains(runtime, namespace)) =>
        (status = EFI_INVALID_PARAMETER /\ NoCmdline)

(* -------------------------------- C4 --------------------------------- *)
\* C4: when the builtin line contains the marker exactly once as a
\* standalone token, neither the rest of the builtin line nor the runtime
\* line contains "STUBBY_RT", and the runtime line passes validation,
\* get_cmdline (no allocation failing) succeeds in both modes and returns
\* (builtin bytes before the marker) ++ runtime ++ (builtin bytes after the
\* marker), of length builtin_len - 14 + runtime_len.
C4_SpliceAroundMarker ==
    (Returned /\ NoAllocFailed /\ OneStandaloneMarker
        /\ ~Contains(BeforeMarker, namespace)
        /\ ~Contains(AfterMarker, namespace)
        /\ ~Contains(runtime, namespace)
        /\ CheckWalk(runtime).status = EFI_SUCCESS) =>
        /\ status = EFI_SUCCESS
        /\ cmdline.ptr
        /\ cmdline.bytes = BeforeMarker \o runtime \o AfterMarker
        /\ cmdline.len = Len(builtin) - 14 + Len(runtime)
        /\ Len(cmdline.bytes) = cmdline.len

\* a successful merge with bytes before the marker, bytes after it and a
\* runtime line in between
C4_Witness ==
    /\ Returned
    /\ NoAllocFailed
    /\ OneStandaloneMarker
    /\ status = EFI_SUCCESS
    /\ cmdline.ptr
    /\ BeforeMarker # <<>>
    /\ AfterMarker # <<>>
    /\ runtime # <<>>

(* -------------------------------- C5 --------------------------------- *)
\* C5: for a non-empty builtin line without the marker, get_cmdline in
\* Secure mode rejects every non-empty runtime line with InvalidParameter
\* (when no allocation fails) and produces no command line; in Insecure
\* mode the splice leaves prefix = builtin followed by one space and an
\* empty suffix, a produced command line is builtin ++ " " ++ runtime, and
\* one is produced when no allocation fails and "STUBBY_RT" occurs in
\* neither line.
C5_BuiltinWithoutMarker ==
    (Returned /\ builtin # <<>> /\ ~HasMarker) =>
        IF secure
        THEN runtime # <<>> =>
                /\ NoCmdline
                /\ EFI_ERROR(status)
                /\ NoAllocFailed =>
                      (status = EFI_INVALID_PARAMETER /\ errmsg.msg = MsgNoMarker)
        ELSE /\ failed \cap {"errbuf", "part1", "part2"} = {} =>
                  /\ part1 = builtin \o <<32>>
                  /\ part1_len = Len(builtin) + 1
                  /\ part2_len = 0
             /\ cmdline.ptr =>
                  /\ cmdline.bytes = builtin \o <<32>> \o runtime
                  /\ cmdline.len = Len(builtin) + 1 + Len(runtime)
             /\ (NoAllocFailed /\ ~Contains(builtin, namespace)
                    /\ ~Contains(runtime, namespace)) => cmdline.ptr

\* an Insecure-mode merge of a builtin line without marker with a runtime
\* line that holds a disallowed token
C5_Witness ==
    /\ ~secure
    /\ Returned
    /\ builtin # <<>>
    /\ ~HasMarker
    /\ cmdline.ptr
    /\ runtime # <<>>
    /\ Printable(runtime)
    /\ Dirty(runtime)
    /\ errmsg.ptr

(* -------------------------------- C6 --------------------------------- *)
\* C6: a builtin line with the marker is accepted only if the marker occurs
\* exactly once and is a whole token; with a second occurrence, or with a
\* marker glued to a non-space byte on either side, the merge fails in both
\* modes for every runtime line (with InvalidParameter when no allocation
\* fails) and produces no command line.
C6_MarkerIsOneWholeToken ==
    ((Returned \/ Done) /\ HasMarker) =>
        /\ ~OneStandaloneMarker =>
              /\ NoCmdline
              /\ EFI_ERROR(status)
              /\ NoAllocFailed => status = EFI_INVALID_PARAMETER
        /\ cmdline.ptr => OneStandaloneMarker

\* an Insecure-mode merge rejected because the only marker is followed by
\* a non-space byte, with nothing else wrong with the builtin line
C6_Witness ==
    /\ ~secure
    /\ Returned
    /\ Cardinality(MarkerAt) = 1
    /\ FirstMarker = 1
    /\ ~StandaloneAt(1)
    /\ ~Contains(AfterMarker, namespace)
    /\ status = EFI_INVALID_PARAMETER
    /\ errmsg.msg = MsgNotToken

(* -------------------------------- C7 --------------------------------- *)
\* C7: for a line of printable bytes only, check_cmdline reports "Too many
\* tokens" exactly when the line has more than 128 space-delimited tokens,
\* whatever its length in bytes.
C7_LimitCountsTokens ==
    (pc = "cc_out" /\ "buf" \notin failed /\ Printable(runtime)) =>
        ((cc.errmsg = MsgTooMany) <=> (TokenCount(runtime) > 128))

(* -------------------------------- C8 --------------------------------- *)
\* C8: no buffer is freed twice or used after being freed; the tokenizer's
\* working copy lives only inside check_cmdline; when get_cmdline returns,
\* the only live allocations are the command line and the diagnostic handed
\* to the caller; when get_cmdline_with_print returns, the only live
\* allocation is the returned command line, and none on a fatal error.
\* Every allocation may fail.
C8_BuffersReleased ==
    /\ faults = {}
    /\ "buf" \in live => pc \in {"cc_walk", "cc_out"}
    /\ Returned =>
          live = (IF cmdline.ptr THEN {"cbuf"} ELSE {})
                    \cup (IF errmsg.ptr THEN {"errbuf"} ELSE {})
    /\ Done =>
          /\ live = (IF cmdline.ptr THEN {"cbuf"} ELSE {})
          /\ EFI_ERROR(status) => live = {}

\* get_cmdline_with_print returned after the last allocation failed, with
\* all four earlier buffers released
C8_Witness ==
    /\ Done
    /\ failed = {"cbuf"}
    /\ cap["part1"] > 0
    /\ cap["part2"] > 0
    /\ cap["buf"] > 0
    /\ cap["errbuf"] > 0
    /\ live = {}

(* -------------------------------- C9 --------------------------------- *)
\* the messages kcmdline.c writes for a status; none is written for an
\* allocation failure
MessageTexts(st) ==
    IF st = EFI_INVALID_PARAMETER
    THEN { MsgNoMarker.text, MsgTwice.text, MsgNotToken.text,
           MsgNsBuiltin.text, MsgNsRuntime.text }
    ELSE IF st = EFI_SECURITY_VIOLATION
    THEN { MsgBadChar(0, 0).text, MsgTooMany.text, MsgNotAllowed(<<>>).text }
    ELSE {}

\* C9: whenever get_cmdline returns an error status, *errmsg is non-null
\* and holds a non-empty message written for that failure.
C9_EveryFailureHasDiagnostic ==
    (Returned /\ EFI_ERROR(status)) =>
        /\ errmsg.ptr
        /\ errmsg.msg.text \in MessageTexts(status)

(* -------------------------------- C10 -------------------------------- *)
\* C10: every byte get_cmdline writes lands inside its buffer: the write
\* indexes into part1 and part2 are at most builtin_len, those into the
\* result buffer at most part1_len + runtime_len + part2_len.
C10_WritesInBounds ==
    /\ maxw["part1"] <= Len(builtin)
    /\ maxw["part2"] <= Len(builtin)
    /\ maxw["cbuf"] <= part1_len + Len(runtime) + part2_len
    /\ \A b \in Buffers : cap[b] > 0 => maxw[b] < cap[b]

=============================================================================
